---- MODULE Spec2Model ----
(***************************************************************************)
(* WaVeS mapping engine: Control (src/control.py).                         *)
(*                                                                         *)
(* Python strings are modelled as sequences of tokens.  A token is one     *)
(* punctuation character (":", ",", " ", "#", a digit) or one word that    *)
(* contains none of them, so that str.split, str.strip, the substring test *)
(* `a in b` and str.lower act on the token sequence exactly as they act on *)
(* the characters.  A config file is a sequence of such lines.             *)
(***************************************************************************)
EXTENDS Integers, Sequences, FiniteSets, TLC

\* Largest value of the `sliders` setting the configs of the model declare.
MaxSliders == 2

\* Divisor of control.py line 194: the top of the slider range.
MAX == 1023

-----------------------------------------------------------------------------
(* Python string primitives on token sequences *)

\* `t in s` for two strings: t occurs in s as a contiguous run.
Contains(s, t) ==
  \E i \in 1..(Len(s) - Len(t) + 1) : SubSeq(s, i, i + Len(t) - 1) = t

\* Position of the first token equal to sep in s, 0 when there is none.
FirstIndex(s, sep) ==
  IF \E i \in 1..Len(s) : s[i] = sep
  THEN CHOOSE i \in 1..Len(s) : s[i] = sep /\ \A j \in 1..(i - 1) : s[j] # sep
  ELSE 0

RECURSIVE Split(_, _)
\* s.split(sep) for a one-character separator: the list of pieces.
Split(s, sep) ==
  LET i == FirstIndex(s, sep)
  IN IF i = 0 THEN <<s>>
     ELSE <<SubSeq(s, 1, i - 1)>> \o Split(SubSeq(s, i + 1, Len(s)), sep)

RECURSIVE LStrip(_)
LStrip(s) == IF s # <<>> /\ Head(s) = " " THEN LStrip(Tail(s)) ELSE s

RECURSIVE RStrip(_)
RStrip(s) ==
  IF s # <<>> /\ s[Len(s)] = " " THEN RStrip(SubSeq(s, 1, Len(s) - 1)) ELSE s

\* s.strip()
Strip(s) == RStrip(LStrip(s))

\* str.lower() of one word token; punctuation and digits are unchanged.
LowerTok(t) ==
  CASE t = "Master" -> "master"
    [] t = "System" -> "system"
    [] t = "Unmapped" -> "unmapped"
    [] t = "Chrome.exe" -> "chrome.exe"
    [] t = "Spotify.exe" -> "spotify.exe"
    [] t = "True" -> "true"
    [] t = "False" -> "false"
    [] t = "FALSE" -> "false"
    [] OTHER -> t

\* s.lower()
Lower(s) == [i \in 1..Len(s) |-> LowerTok(s[i])]

Digit(d) ==
  CASE d = 0 -> "0" [] d = 1 -> "1" [] d = 2 -> "2" [] d = 3 -> "3"
    [] d = 4 -> "4" [] d = 5 -> "5" [] d = 6 -> "6" [] d = 7 -> "7"
    [] d = 8 -> "8" [] d = 9 -> "9"

RECURSIVE Str(_)
\* str(n) for a non-negative int: its decimal digits.
Str(n) == IF n < 10 THEN <<Digit(n)>> ELSE Str(n \div 10) \o <<Digit(n % 10)>>

IsDigit(t) == t \in {"0", "1", "2", "3", "4", "5", "6", "7", "8", "9"}

DigitVal(t) == CHOOSE d \in 0..9 : Digit(d) = t

RECURSIVE IntOf(_)
IntOf(s) ==
  IF Len(s) = 1 THEN DigitVal(s[1])
  ELSE 10 * IntOf(SubSeq(s, 1, Len(s) - 1)) + DigitVal(s[Len(s)])

\* int(s): the value, or a ValueError when s is not a run of digits.
PyInt(s) ==
  IF s # <<>> /\ \A i \in 1..Len(s) : IsDigit(s[i])
  THEN [ok |-> TRUE, val |-> IntOf(s)]
  ELSE [ok |-> FALSE, val |-> 0]

-----------------------------------------------------------------------------
(* Python dict: a sequence of items in insertion order *)

DictHas(d, k) == \E i \in 1..Len(d) : d[i].key = k

DictGet(d, k) == d[CHOOSE i \in 1..Len(d) : d[i].key = k].val

\* d[k] = v: an existing key keeps its place and takes the new value.
DictSet(d, k, v) ==
  IF DictHas(d, k)
  THEN [i \in 1..Len(d) |-> IF d[i].key = k THEN [key |-> k, val |-> v] ELSE d[i]]
  ELSE Append(d, [key |-> k, val |-> v])

DictKeys(d) == {d[i].key : i \in 1..Len(d)}

DictValues(d) == [i \in 1..Len(d) |-> d[i].val]

\* `x in list`
InList(x, l) == \E i \in 1..Len(l) : l[i] = x

\* list.remove(x): drops the first occurrence.
ListRemove(l, x) ==
  LET i == CHOOSE j \in 1..Len(l) : l[j] = x /\ \A m \in 1..(j - 1) : l[m] # x
  IN SubSeq(l, 1, i - 1) \o SubSeq(l, i + 1, Len(l))

-----------------------------------------------------------------------------
(* Control.get_setting *)

\* The lines of self.lines that contain text + ":" (control.py line 93).
MatchingLines(lines, text) ==
  SelectSeq(lines, LAMBDA x : Contains(x, text \o <<":">>))

\* get_setting(text): the text between the first and the second ":" of the
\* first line that contains text + ":", stripped; IndexError (ok = FALSE)
\* when no line contains it.
get_setting(lines, text) ==
  LET hits == MatchingLines(lines, text)
  IN IF hits = <<>> THEN [ok |-> FALSE, val |-> <<>>]
     ELSE [ok |-> TRUE, val |-> Strip(Split(hits[1], ":")[2])]

-----------------------------------------------------------------------------
(* Python string literals of control.py *)

master == <<"master">>
system == <<"system">>
unmapped == <<"unmapped">>
system_in_unmapped == <<"system", " ", "in", " ", "unmapped">>
false == <<"false">>

-----------------------------------------------------------------------------
(* The objects get_mapping builds (classes of the sessions module) and the  *)
(* pycaw sessions it reads.  A pycaw session is a record                   *)
(*   [id, Process, SystemRoot]: Process is the process name, NoProcess     *)
(* when session.Process is None; SystemRoot tells whether 'SystemRoot' is  *)
(* in session.DisplayName.                                                 *)

NoProcess == <<>>

Master(idx) == [cls |-> "Master", idx |-> idx, sessions |-> <<>>]

System(idx, session) == [cls |-> "System", idx |-> idx, sessions |-> <<session>>]

Session(idx, session) == [cls |-> "Session", idx |-> idx, sessions |-> <<session>>]

SessionGroup(idx, sessions) ==
  [cls |-> "SessionGroup", idx |-> idx, sessions |-> sessions]

\* A dict key of self.target_idxs: a str, or the tuple of a comma list.
StrKey(s) == [type |-> "str", str |-> s, tuple |-> <<>>]

TupleKey(t) == [type |-> "tuple", str |-> <<>>, tuple |-> t]

-----------------------------------------------------------------------------
(* Control.get_mapping, lines 100-105: the declarations *)

\* Lines 103-104: a value with a comma becomes the tuple of its stripped parts.
ApplicationKey(application_str) ==
  IF Contains(application_str, <<",">>)
  THEN LET parts == Split(application_str, ",")
       IN TupleKey([i \in 1..Len(parts) |-> Strip(parts[i])])
  ELSE StrKey(application_str)

RECURSIVE BuildTargetIdxs(_, _, _, _)
\* The loop of lines 101-105 from index idx on, target_idxs being the dict
\* built so far.  ok = FALSE: get_setting raised IndexError at that index,
\* and dict is what the loop had stored by then.
BuildTargetIdxs(lines, sliders, idx, target_idxs) ==
  IF idx >= sliders THEN [ok |-> TRUE, dict |-> target_idxs]
  ELSE LET r == get_setting(lines, Str(idx))
       IN IF ~r.ok THEN [ok |-> FALSE, dict |-> target_idxs]
          ELSE BuildTargetIdxs(lines, sliders, idx + 1,
                               DictSet(target_idxs, ApplicationKey(r.val), idx))

-----------------------------------------------------------------------------
(* Control.get_mapping, lines 107-114: the live session table *)

RECURSIVE ActiveSessionsFrom(_, _, _)
ActiveSessionsFrom(found, i, d) ==
  IF i > Len(found) THEN d
  ELSE ActiveSessionsFrom(found, i + 1,
         IF found[i].Process # NoProcess
         THEN DictSet(d, Lower(found[i].Process), found[i])
         ELSE d)

\* Lines 110-112: lowercase process name -> session, a later session of the
\* same name replacing the earlier one.
ActiveSessions(found) == ActiveSessionsFrom(found, 1, <<>>)

\* Line 114: the sessions whose DisplayName contains 'SystemRoot'; the code
\* takes element [0] and raises IndexError when the list is empty.
SystemCandidates(found) == SelectSeq(found, LAMBDA s : s.SystemRoot)

-----------------------------------------------------------------------------
(* Control.get_mapping, lines 116-152: one declaration *)

\* Mutant of ResolveStr: a process name is bound without the test of line
\* 127, to Session(idx, None) when it is not running.
ResolveStrUnchecked(st, target0, idx, active_sessions, system_session) ==
  LET target == Lower(target0)
  IN IF target = master
     THEN [st EXCEPT !.session_dict = DictSet(@, idx, Master(idx))]
     ELSE IF target = system
     THEN [session_dict |-> DictSet(st.session_dict, idx, System(idx, system_session)),
           mapped_sessions |-> Append(st.mapped_sessions, system_session)]
     ELSE IF target # unmapped
     THEN IF DictHas(active_sessions, target)
          THEN LET session == DictGet(active_sessions, target)
               IN [session_dict |-> DictSet(st.session_dict, idx, Session(idx, session)),
                   mapped_sessions |-> Append(st.mapped_sessions, session)]
          ELSE [st EXCEPT !.session_dict =
                  DictSet(@, idx, [cls |-> "Session", idx |-> idx, sessions |-> <<>>])]
     ELSE st

\* Lines 117-131: a str target.  st = [session_dict, mapped_sessions].
ResolveStr(st, target0, idx, active_sessions, system_session) ==
  LET target == Lower(target0)
  IN IF target = master
     THEN [st EXCEPT !.session_dict = DictSet(@, idx, Master(idx))]
     ELSE IF target = system
     THEN [session_dict |-> DictSet(st.session_dict, idx, System(idx, system_session)),
           mapped_sessions |-> Append(st.mapped_sessions, system_session)]
     ELSE IF target # unmapped /\ DictHas(active_sessions, target)
     THEN LET session == DictGet(active_sessions, target)
          IN [session_dict |-> DictSet(st.session_dict, idx, Session(idx, session)),
              mapped_sessions |-> Append(st.mapped_sessions, session)]
     ELSE st

RECURSIVE GroupHits(_, _, _)
\* Lines 136-147: the live sessions of a tuple target, in declared order;
\* 'master', 'system' and 'unmapped' are skipped.
GroupHits(target, i, active_sessions) ==
  IF i > Len(target) THEN <<>>
  ELSE LET target_app == Lower(target[i])
           rest == GroupHits(target, i + 1, active_sessions)
       IN IF target_app \in {master, system, unmapped} THEN rest
          ELSE IF DictHas(active_sessions, target_app)
          THEN <<DictGet(active_sessions, target_app)>> \o rest
          ELSE rest

\* Lines 133-150: a tuple target.
ResolveTuple(st, target, idx, active_sessions) ==
  LET active_sessions_in_group == GroupHits(target, 1, active_sessions)
  IN [session_dict |->
        IF Len(active_sessions_in_group) > 0
        THEN DictSet(st.session_dict, idx, SessionGroup(idx, active_sessions_in_group))
        ELSE st.session_dict,
      mapped_sessions |-> st.mapped_sessions \o active_sessions_in_group]

\* One iteration of the loop of line 116.
ResolveTarget(st, item, active_sessions, system_session) ==
  IF item.key.type = "str"
  THEN ResolveStr(st, item.key.str, item.val, active_sessions, system_session)
  ELSE ResolveTuple(st, item.key.tuple, item.val, active_sessions)

RECURSIVE ResolveFrom(_, _, _, _, _)
\* The loop of lines 116-152 from item i on.
ResolveFrom(st, target_idxs, i, active_sessions, system_session) ==
  IF i > Len(target_idxs) THEN st
  ELSE ResolveFrom(ResolveTarget(st, target_idxs[i], active_sessions, system_session),
                   target_idxs, i + 1, active_sessions, system_session)

-----------------------------------------------------------------------------
(* Control.get_mapping, lines 154-163: the unmapped group *)

\* Mutant of UnmappedCandidates: the claimed sessions are not filtered out.
UnmappedCandidatesUnfiltered(active_sessions, mapped_sessions) ==
  DictValues(active_sessions)

\* Line 156.
UnmappedCandidates(active_sessions, mapped_sessions) ==
  SelectSeq(DictValues(active_sessions), LAMBDA ses : ~InList(ses, mapped_sessions))

\* Mutant of DropSystem: the value is compared without .lower().
DropSystemCaseSensitive(unmapped_sessions, setting, system_session) ==
  IF setting = false /\ InList(system_session, unmapped_sessions)
  THEN ListRemove(unmapped_sessions, system_session)
  ELSE unmapped_sessions

\* Lines 157-158, setting being the value of 'system in unmapped'.
DropSystem(unmapped_sessions, setting, system_session) ==
  IF Lower(setting) = false /\ InList(system_session, unmapped_sessions)
  THEN ListRemove(unmapped_sessions, system_session)
  ELSE unmapped_sessions

\* Lines 154-163.  ok = FALSE: get_setting('system in unmapped') raised
\* IndexError at line 157.
ResolveUnmapped(st, lines, target_idxs, active_sessions, system_session) ==
  IF DictHas(target_idxs, StrKey(unmapped))
  THEN LET unmapped_idx == DictGet(target_idxs, StrKey(unmapped))
           unmapped_sessions == UnmappedCandidates(active_sessions, st.mapped_sessions)
           r == get_setting(lines, system_in_unmapped)
       IN IF ~r.ok THEN [ok |-> FALSE, session_dict |-> st.session_dict]
          ELSE [ok |-> TRUE,
                session_dict |->
                  DictSet(st.session_dict, unmapped_idx,
                          SessionGroup(unmapped_idx,
                                       DropSystem(unmapped_sessions, r.val, system_session)))]
  ELSE [ok |-> TRUE, session_dict |-> st.session_dict]

-----------------------------------------------------------------------------
(* Control.get_mapping, the whole method *)

NoError == [exc |-> "none", line |-> 0]

IndexError(line) == [exc |-> "IndexError", line |-> line]

\* Mutant of FreshTargetIdxs: the dict of the earlier pass is kept.
KeptTargetIdxs(self) == self.target_idxs

\* Line 98: self.target_idxs = {}
FreshTargetIdxs(self) == <<>>

\* Line 107: session_dict = {}, a new dict local to the call.
FreshSessionDict(self) == <<>>

\* Line 113: mapped_sessions = []
FreshMappedSessions(self) == <<>>

\* Mutant of Published: the table is rebuilt in place, in self.sessions.
PublishedInPlace(self_sessions, session_dict, assigned) == session_dict

\* What self.sessions holds while get_mapping runs: session_dict is a local
\* until line 165 assigns it, so the field keeps its dict until then.
Published(self_sessions, session_dict, assigned) ==
  IF assigned THEN session_dict ELSE self_sessions

\* get_mapping on the object self, with text the config file's lines and
\* all_sessions what AudioUtilities.GetAllSessions() returns.  The result is
\* the object after the call and the exception that left it, if any:
\* self.sessions is assigned at line 165 only, after everything that raises.
get_mapping(self, text, all_sessions) ==
  LET loaded == [self EXCEPT !.lines = text]
      t == BuildTargetIdxs(text, self.sliders, 0, FreshTargetIdxs(self))
      declared == [loaded EXCEPT !.target_idxs = t.dict]
      snapshot == [declared EXCEPT !.found_pycaw_sessions = all_sessions]
      active_sessions == ActiveSessions(all_sessions)
      system_session == SystemCandidates(all_sessions)[1]
      st == ResolveFrom([session_dict |-> FreshSessionDict(self),
                         mapped_sessions |-> FreshMappedSessions(self)],
                        t.dict, 1, active_sessions, system_session)
      u == ResolveUnmapped(st, text, t.dict, active_sessions, system_session)
  IN IF ~t.ok THEN [self |-> declared, raised |-> IndexError(102)]
     ELSE IF SystemCandidates(all_sessions) = <<>>
     THEN [self |-> snapshot, raised |-> IndexError(114)]
     ELSE IF ~u.ok THEN [self |-> snapshot, raised |-> IndexError(157)]
     ELSE [self |-> [snapshot EXCEPT !.sessions =
                                       Published(self.sessions, u.session_dict, TRUE)],
           raised |-> NoError]

-----------------------------------------------------------------------------
(* Control.set_volume *)

\* Mutant of Normalize: the reading is divided by 1024.
NormalizeBy1024(reading) == [num |-> reading, den |-> 1024]

\* Line 194: values[index] / 1023, kept as the exact fraction.
Normalize(reading) == [num |-> reading, den |-> MAX]

\* Line 196: 1 - volume.
OneMinus(volume) == [num |-> volume.den - volume.num, den |-> volume.den]

\* Lines 194-196.
Volume(reading, inverted) ==
  IF inverted THEN OneMinus(Normalize(reading)) ELSE Normalize(reading)

\* app.set_volume(volume) of the sessions module, as section 4.2 and 4.4 of
\* the specification describe it: setting the volume of a session whose
\* process has exited (its id is in stale) fails with VolumeSetError; a group
\* goes on with its other members and does not raise; master never fails.
app_set_volume_raises(app, stale) ==
  /\ app.cls \in {"Session", "System"}
  /\ \E i \in 1..Len(app.sessions) : app.sessions[i].id \in stale

\* The dict set_volume iterates (line 193).
DispatchItems(self) == self.sessions

\* Lines 194-197 for one item of the dict: the call it makes.
SetVolumeCall(item, values, inverted) ==
  [index |-> item.key, app |-> item.val,
   volume |-> Volume(values[item.key + 1], inverted)]

RECURSIVE SetVolumeFrom(_, _, _, _, _, _)
\* The loop of lines 193-197 from item i on.  calls are the app.set_volume
\* calls made so far, each [index, app, volume]; an exception raised by a
\* call, or by values[index], ends the loop: the method has no handler.
SetVolumeFrom(items, i, values, inverted, stale, calls) ==
  IF i > Len(items) THEN [calls |-> calls, raised |-> NoError]
  ELSE LET index == items[i].key
           app == items[i].val
       IN IF index >= Len(values) THEN [calls |-> calls, raised |-> IndexError(194)]
          ELSE LET call == SetVolumeCall(items[i], values, inverted)
               IN IF app_set_volume_raises(app, stale)
                  THEN [calls |-> Append(calls, call),
                        raised |-> [exc |-> "VolumeSetError", line |-> 197]]
                  ELSE SetVolumeFrom(items, i + 1, values, inverted, stale,
                                     Append(calls, call))

set_volume(self, values, stale) ==
  SetVolumeFrom(DispatchItems(self), 1, values, self.inverted, stale, <<>>)

-----------------------------------------------------------------------------
(* Inputs: config files, live audio sessions, reading batches *)

\* The target expressions the configs of the model declare.
TargetExprs ==
  { <<"master">>, <<"system">>, <<"unmapped">>, <<"chrome.exe">>,
    <<"discord.exe">>, <<"Spotify.exe", ",", " ", "discord.exe">> }

\* Values of the `system in unmapped` line; Absent: the config has no such line.
Absent == <<"(absent)">>

SiuValues == { Absent, <<"True">>, <<"False">>, <<"false">> }

InvertedValues == { <<"False">>, <<"True">> }

IndexLine(idx, expr) == Str(idx) \o <<":", " ">> \o expr

SiuLine(v) == IF v = Absent THEN <<>> ELSE <<system_in_unmapped \o <<":">> \o v>>

\* A config in the layout of default_mapping_txt: a blank line, the comment
\* "#<number>:<application>", one line per index, then the settings.
Config(exprs, inv, siu) ==
  << <<>>, <<"#", "<", "number", ">", ":", "<", "application", ">">> >>
  \o [i \in 1..Len(exprs) |-> IndexLine(i - 1, exprs[i])]
  \o << <<"device", " ", "name", ":", " ", "Arduino", " ", "Micro">>,
        <<"sliders", ":", " ">> \o Str(Len(exprs)),
        <<"port", ":", "COM8">>,
        <<"baudrate", ":", "9", "6", "0", "0">>,
        <<"inverted", ":">> \o inv >>
  \o SiuLine(siu)

ConfigsOf(exprs, invs, sius) ==
  UNION { { Config(e, inv, siu) : e \in [1..n -> exprs], inv \in invs, siu \in sius }
          : n \in 1..MaxSliders }

Configs == ConfigsOf(TargetExprs, InvertedValues, SiuValues)

\* The audio sessions the OS may report: two applications, the system-sounds
\* session without a process, a system-sounds session with one, and a second
\* session of the first application.
AllSessions ==
  << [id |-> 1, Process |-> <<"Chrome.exe">>, SystemRoot |-> FALSE],
     [id |-> 2, Process |-> <<"Spotify.exe">>, SystemRoot |-> FALSE],
     [id |-> 3, Process |-> NoProcess, SystemRoot |-> TRUE],
     [id |-> 4, Process |-> <<"svchost.exe">>, SystemRoot |-> TRUE],
     [id |-> 5, Process |-> <<"chrome.exe">>, SystemRoot |-> FALSE] >>

\* What AudioUtilities.GetAllSessions() may return: any of them, in order,
\* the second session of an application only along with its first.
Snapshots ==
  { SelectSeq(AllSessions, LAMBDA x : x.id \in ids) :
      ids \in { S \in SUBSET (1..Len(AllSessions)) : 5 \in S => 1 \in S } }

\* The ends of the slider range.
Readings == {0, MAX}

\* The reading batches of n sliders: every slider at the same end of the
\* range, and the batch 512, 1023, 0, 512, ...
Batches(n) ==
  { [i \in 1..n |-> r] : r \in Readings }
  \cup { [i \in 1..n |-> <<512, 1023, 0>>[((i - 1) % 3) + 1]] }

-----------------------------------------------------------------------------
(* State *)

VARIABLES
  file,                  \* the lines of mapping.txt on disk
  os,                    \* the sessions the OS reports
  lines,                 \* self.lines
  sliders,               \* self.sliders
  inverted,              \* self.inverted
  target_idxs,           \* self.target_idxs
  found_pycaw_sessions,  \* self.found_pycaw_sessions
  sessions,              \* self.sessions; <<>> while it is None
  constructed,           \* Control(...) has returned
  called,                \* the method that ran last
  raised,                \* the exception it raised, or NoError
  values,                \* the argument of the last set_volume
  calls,                 \* the app.set_volume calls it made
  stale,                 \* ids of the sessions whose process has exited
  first,                 \* the first successful pass: its inputs and result,
                         \* and whether a later pass has left another mapping
  looked,                \* the last get_setting call: its text and result
  refresh,               \* a get_mapping call in progress: its place and locals
  disp,                  \* a set_volume call in progress: its place and locals
  current                \* the mapping of the last pass that finished

vars ==
  << file, os, lines, sliders, inverted, target_idxs, found_pycaw_sessions,
     sessions, constructed, called, raised, values, calls, stale, first, looked,
     refresh, disp, current >>

\* The variables of the step-by-step calls.
stepVars == << refresh, disp, current >>

RefreshIdle == [pc |-> "idle", idx |-> 0, i |-> 0, session_dict |-> <<>>,
                mapped_sessions |-> <<>>]

DispIdle == [pc |-> "idle", items |-> <<>>, pos |-> 0, batch |-> <<>>,
             calls |-> <<>>, read |-> <<>>]

\* The object as a record of its fields.
Self ==
  [lines |-> lines, sliders |-> sliders, inverted |-> inverted,
   target_idxs |-> target_idxs, found_pycaw_sessions |-> found_pycaw_sessions,
   sessions |-> sessions]

\* Lines 73-78 succeed: every setting the constructor reads has a line.
ConstructorReads(text) ==
  /\ get_setting(text, <<"sliders">>).ok
  /\ PyInt(get_setting(text, <<"sliders">>).val).ok
  /\ get_setting(text, <<"device", " ", "name">>).ok
  /\ get_setting(text, <<"baudrate">>).ok
  /\ get_setting(text, <<"inverted">>).ok

\* The fields of lines 66-73, with self.lines loaded from the config text.
Fields(text, all_sessions, n, inv) ==
  /\ file = text
  /\ os = all_sessions
  /\ lines = text
  /\ sliders = n
  /\ inverted = inv
  /\ target_idxs = <<>>
  /\ found_pycaw_sessions = <<>>
  /\ sessions = <<>>
  /\ constructed = FALSE
  /\ called = "__init__"
  /\ raised = NoError
  /\ values = <<>>
  /\ calls = <<>>
  /\ stale = {}
  /\ first = [set |-> FALSE, lines |-> <<>>, found |-> <<>>, sessions |-> <<>>,
              other |-> FALSE]
  /\ looked = [text |-> <<>>, result |-> [ok |-> FALSE, val |-> <<>>]]
  /\ refresh = RefreshIdle
  /\ disp = DispIdle
  /\ current = <<>>

\* The object at line 79 of __init__, for the config text and the OS state
\* all_sessions: the fields of lines 66-78.  The call of line 80 that ends
\* the constructor is the first GetMapping.
InitWith(text, all_sessions) ==
  /\ ConstructorReads(text)
  /\ Fields(text, all_sessions,
            PyInt(get_setting(text, <<"sliders">>).val).val,
            get_setting(text, <<"inverted">>).val \in {<<"True">>, <<"true">>})

Init == \E text \in Configs, all_sessions \in Snapshots : InitWith(text, all_sessions)

\* self.get_mapping(): line 80 of the constructor the first time, a reload
\* of the mapping afterwards.  A constructor that raised leaves no object.
GetMapping ==
  /\ constructed \/ called = "__init__"
  /\ LET r == get_mapping(Self, file, os)
     IN /\ lines' = r.self.lines
        /\ target_idxs' = r.self.target_idxs
        /\ found_pycaw_sessions' = r.self.found_pycaw_sessions
        /\ sessions' = r.self.sessions
        /\ raised' = r.raised
        /\ constructed' = (constructed \/ r.raised = NoError)
        /\ first' = IF r.raised # NoError THEN first
                    ELSE IF ~first.set
                    THEN [set |-> TRUE, lines |-> r.self.lines,
                          found |-> r.self.found_pycaw_sessions,
                          sessions |-> r.self.sessions, other |-> FALSE]
                    ELSE IF r.self.sessions # first.sessions
                    THEN [first EXCEPT !.other = TRUE]
                    ELSE first
  /\ called' = "get_mapping"
  /\ values' = <<>>
  /\ calls' = <<>>
  /\ UNCHANGED << file, os, sliders, inverted, stale, looked, stepVars >>

\* self.set_volume(batch) for a batch of `sliders` readings.
SetVolume ==
  /\ constructed
  /\ \E batch \in Batches(sliders) :
       LET r == set_volume(Self, batch, stale)
       IN /\ values' = batch
          /\ calls' = r.calls
          /\ raised' = r.raised
  /\ called' = "set_volume"
  /\ UNCHANGED << file, os, lines, sliders, inverted, target_idxs,
                  found_pycaw_sessions, sessions, constructed, stale, first, looked, stepVars >>

Next == GetMapping \/ SetVolume

Spec == Init /\ [][Next]_vars

-----------------------------------------------------------------------------
(* Processes that exit between a resolution pass and a dispatch *)

\* The process of a session the object holds exits: its volume handle goes
\* stale, and the OS no longer reports the session.
ProcessExit ==
  /\ constructed
  /\ \E i \in 1..Len(os) :
       /\ os[i].Process # NoProcess
       /\ stale' = stale \cup {os[i].id}
       /\ os' = SelectSeq(os, LAMBDA x : x.id # os[i].id)
  /\ UNCHANGED << file, lines, sliders, inverted, target_idxs, found_pycaw_sessions,
                  sessions, constructed, called, raised, values, calls, first, looked, stepVars >>

InitStale ==
  \E text \in ConfigsOf(TargetExprs, {<<"False">>}, {<<"True">>}), all_sessions \in Snapshots :
    InitWith(text, all_sessions)

NextStale == GetMapping \/ SetVolume \/ ProcessExit

SpecStale == InitStale /\ [][NextStale]_vars

-----------------------------------------------------------------------------
(* Reloads after the config file or the running applications have changed *)

ReloadExprs == { <<"unmapped">>, <<"chrome.exe">> }

ReloadConfigs == ConfigsOf(ReloadExprs, {<<"False">>}, {<<"True">>})

\* Chrome alone, Chrome and Spotify, and a snapshot without the system
\* session, on which a pass fails at line 114.
ReloadSnapshots ==
  { SelectSeq(AllSessions, LAMBDA x : x.id \in ids) : ids \in {{1, 3}, {1, 2, 3}, {1, 2}} }

\* mapping.txt is rewritten; `sliders` is read by the constructor only, so
\* the edit keeps the number of sliders the object was built with.
EditConfig ==
  /\ constructed
  /\ \E text \in ReloadConfigs :
       /\ PyInt(get_setting(text, <<"sliders">>).val).val = sliders
       /\ file' = text
  /\ UNCHANGED << os, lines, sliders, inverted, target_idxs, found_pycaw_sessions,
                  sessions, constructed, called, raised, values, calls, stale, first, looked, stepVars >>

\* Applications start and stop: the OS reports another set of sessions.
SessionChurn ==
  /\ constructed
  /\ os' \in ReloadSnapshots
  /\ UNCHANGED << file, lines, sliders, inverted, target_idxs, found_pycaw_sessions,
                  sessions, constructed, called, raised, values, calls, stale, first, looked, stepVars >>

InitReload ==
  \E text \in ReloadConfigs, all_sessions \in ReloadSnapshots : InitWith(text, all_sessions)

NextReload == GetMapping \/ EditConfig \/ SessionChurn

SpecReload == InitReload /\ [][NextReload]_vars

-----------------------------------------------------------------------------
(* get_setting on config files with comments and blank lines *)

\* Longest config of SpecParser, in lines.
MaxLines == 3

LinePool ==
  { <<>>,
    <<"#", " ", "0", ":", " ", "old", " ", "target">>,
    <<"0", ":", " ", "master">>,
    <<"0", ":", " ", "chrome.exe">>,
    <<"#", " ", "system", " ", "in", " ", "unmapped", ":", " ", "true">>,
    <<"system", " ", "in", " ", "unmapped", ":", "False">>,
    <<"sliders", ":", " ", "1">> }

LookupKeys == { <<"0">>, system_in_unmapped, <<"sliders">> }

\* self.lines after load_config, before any setting is read.
InitParser ==
  \E n \in 1..MaxLines :
    \E text \in [1..n -> LinePool] : Fields(text, <<>>, 0, FALSE)

\* self.get_setting(text)
GetSetting ==
  /\ \E text \in LookupKeys :
       looked' = [text |-> text, result |-> get_setting(lines, text)]
  /\ called' = "get_setting"
  /\ UNCHANGED << file, os, lines, sliders, inverted, target_idxs, found_pycaw_sessions,
                  sessions, constructed, raised, values, calls, stale, first, stepVars >>

NextParser == GetSetting

SpecParser == InitParser /\ [][NextParser]_vars


-----------------------------------------------------------------------------
(* get_mapping and set_volume statement by statement, interleaved: a reload *)
(* of the mapping while readings are being dispatched.                      *)

\* The declarations chrome.exe, unmapped, chrome.exe, ... of n sliders, or
\* the same starting with unmapped.
ConcExprs(n, chrome_first) ==
  [i \in 1..n |-> IF (i % 2 = 1) = chrome_first THEN <<"chrome.exe">> ELSE <<"unmapped">>]

\* A config without its last index line: get_setting raises at line 102.
WithoutLastIndexLine(text, n) ==
  SubSeq(text, 1, n + 1) \o SubSeq(text, n + 3, Len(text))

WholeConfigs ==
  { Config(ConcExprs(MaxSliders, b), <<"False">>, <<"True">>) : b \in BOOLEAN }

ConcConfigs ==
  WholeConfigs
  \cup { WithoutLastIndexLine(Config(ConcExprs(MaxSliders, TRUE), <<"False">>, <<"True">>),
                              MaxSliders) }

ConcSnapshots ==
  { SelectSeq(AllSessions, LAMBDA x : x.id \in ids) : ids \in {{1, 3}, {1, 2, 3}, {1, 2}} }

ConcBatch(n) == [i \in 1..n |-> <<512, 1023, 0>>[((i - 1) % 3) + 1]]

\* The call of get_mapping that ends with exception exc.
RefreshRaises(exc) ==
  /\ refresh' = RefreshIdle
  /\ raised' = exc
  /\ called' = "get_mapping"

\* Lines 97-98: load_config() and self.target_idxs = {}.
RefreshLoad ==
  /\ refresh.pc = "idle"
  /\ constructed \/ called = "__init__"
  /\ lines' = file
  /\ target_idxs' = FreshTargetIdxs(Self)
  /\ refresh' = [RefreshIdle EXCEPT !.pc = "declare"]
  /\ called' = "get_mapping:running"
  /\ UNCHANGED << file, os, sliders, inverted, found_pycaw_sessions, sessions,
                  constructed, raised, values, calls, stale, first, looked, disp, current >>

\* Lines 101-105, one index.
RefreshDeclare ==
  /\ refresh.pc = "declare"
  /\ LET r == get_setting(lines, Str(refresh.idx))
     IN IF ~r.ok
        THEN /\ RefreshRaises(IndexError(102))
             /\ UNCHANGED target_idxs
        ELSE /\ target_idxs' = DictSet(target_idxs, ApplicationKey(r.val), refresh.idx)
             /\ refresh' = IF refresh.idx + 1 >= sliders
                           THEN [refresh EXCEPT !.pc = "snapshot"]
                           ELSE [refresh EXCEPT !.idx = @ + 1]
             /\ UNCHANGED << raised, called >>
  /\ UNCHANGED << file, os, lines, sliders, inverted, found_pycaw_sessions, sessions,
                  constructed, values, calls, stale, first, looked, disp, current >>

\* Lines 107-114: the new local dict and the live session table.
RefreshSnapshot ==
  /\ refresh.pc = "snapshot"
  /\ found_pycaw_sessions' = os
  /\ IF SystemCandidates(os) = <<>>
     THEN /\ RefreshRaises(IndexError(114))
          /\ UNCHANGED sessions
     ELSE /\ refresh' = [refresh EXCEPT !.pc = "resolve", !.i = 1,
                                        !.session_dict = FreshSessionDict(Self),
                                        !.mapped_sessions = FreshMappedSessions(Self)]
          /\ sessions' = Published(sessions, FreshSessionDict(Self), FALSE)
          /\ UNCHANGED << raised, called >>
  /\ UNCHANGED << file, os, lines, sliders, inverted, target_idxs,
                  constructed, values, calls, stale, first, looked, disp, current >>

\* Lines 116-152, one declaration.
RefreshResolve ==
  /\ refresh.pc = "resolve"
  /\ LET st == ResolveTarget([session_dict |-> refresh.session_dict,
                              mapped_sessions |-> refresh.mapped_sessions],
                             target_idxs[refresh.i],
                             ActiveSessions(found_pycaw_sessions),
                             SystemCandidates(found_pycaw_sessions)[1])
     IN /\ refresh' = [refresh EXCEPT
                         !.session_dict = st.session_dict,
                         !.mapped_sessions = st.mapped_sessions,
                         !.i = @ + 1,
                         !.pc = IF refresh.i + 1 > Len(target_idxs)
                                THEN "unmapped" ELSE "resolve"]
        /\ sessions' = Published(sessions, st.session_dict, FALSE)
  /\ UNCHANGED << file, os, lines, sliders, inverted, target_idxs, found_pycaw_sessions,
                  constructed, called, raised, values, calls, stale, first, looked,
                  disp, current >>

\* Lines 154-163: the unmapped group.
RefreshUnmapped ==
  /\ refresh.pc = "unmapped"
  /\ LET u == ResolveUnmapped([session_dict |-> refresh.session_dict,
                               mapped_sessions |-> refresh.mapped_sessions],
                              lines, target_idxs,
                              ActiveSessions(found_pycaw_sessions),
                              SystemCandidates(found_pycaw_sessions)[1])
     IN IF ~u.ok
        THEN /\ RefreshRaises(IndexError(157))
             /\ UNCHANGED sessions
        ELSE /\ refresh' = [refresh EXCEPT !.pc = "assign", !.session_dict = u.session_dict]
             /\ sessions' = Published(sessions, u.session_dict, FALSE)
             /\ UNCHANGED << raised, called >>
  /\ UNCHANGED << file, os, lines, sliders, inverted, target_idxs, found_pycaw_sessions,
                  constructed, values, calls, stale, first, looked, disp, current >>

\* Line 165: self.sessions = session_dict.  The pass has finished: current
\* records the mapping the whole method yields on the config it loaded and
\* the sessions it found.
RefreshAssign ==
  /\ refresh.pc = "assign"
  /\ sessions' = Published(sessions, refresh.session_dict, TRUE)
  /\ current' = get_mapping(Self, lines, found_pycaw_sessions).self.sessions
  /\ constructed' = TRUE
  /\ refresh' = RefreshIdle
  /\ raised' = NoError
  /\ called' = "get_mapping"
  /\ UNCHANGED << file, os, lines, sliders, inverted, target_idxs, found_pycaw_sessions,
                  values, calls, stale, first, looked, disp >>

\* Line 193: set_volume takes the dict of self.sessions and starts on it.
DispatchStart ==
  /\ constructed
  /\ disp.pc = "idle"
  /\ disp' = [pc |-> "iterating", items |-> DispatchItems(Self), pos |-> 1,
              batch |-> ConcBatch(sliders), calls |-> <<>>, read |-> current]
  /\ UNCHANGED << file, os, lines, sliders, inverted, target_idxs, found_pycaw_sessions,
                  sessions, constructed, called, raised, values, calls, stale, first,
                  looked, refresh, current >>

\* Lines 194-197 for the next item of that dict, or the end of the loop.
DispatchStep ==
  /\ disp.pc = "iterating"
  /\ IF disp.pos > Len(disp.items)
     THEN /\ disp' = DispIdle
          /\ values' = disp.batch
          /\ calls' = disp.calls
     ELSE /\ disp' = [disp EXCEPT
                        !.calls = Append(@, SetVolumeCall(disp.items[disp.pos],
                                                          disp.batch, inverted)),
                        !.pos = @ + 1]
          /\ UNCHANGED << values, calls >>
  /\ UNCHANGED << file, os, lines, sliders, inverted, target_idxs, found_pycaw_sessions,
                  sessions, constructed, called, raised, stale, first, looked,
                  refresh, current >>

\* mapping.txt is rewritten while the program runs.
ConcEditConfig ==
  /\ constructed
  /\ \E text \in ConcConfigs :
       /\ PyInt(get_setting(text, <<"sliders">>).val).val = sliders
       /\ file' = text
  /\ UNCHANGED << os, lines, sliders, inverted, target_idxs, found_pycaw_sessions,
                  sessions, constructed, called, raised, values, calls, stale, first,
                  looked, stepVars >>

\* Applications start and stop while the program runs.
ConcSessionChurn ==
  /\ constructed
  /\ os' \in ConcSnapshots
  /\ UNCHANGED << file, lines, sliders, inverted, target_idxs, found_pycaw_sessions,
                  sessions, constructed, called, raised, values, calls, stale, first,
                  looked, stepVars >>

InitConc ==
  \E text \in WholeConfigs, all_sessions \in ConcSnapshots : InitWith(text, all_sessions)

NextConc ==
  \/ RefreshLoad \/ RefreshDeclare \/ RefreshSnapshot \/ RefreshResolve
  \/ RefreshUnmapped \/ RefreshAssign
  \/ DispatchStart \/ DispatchStep
  \/ ConcEditConfig \/ ConcSessionChurn

SpecConc == InitConc /\ [][NextConc]_vars

-----------------------------------------------------------------------------
(* What a config declares, read as the specification describes the format: *)
(* comment lines and blank lines are skipped, and a setting is the first   *)
(* remaining line of the form <key>: <value>.                              *)

IsComment(line) == line # <<>> /\ Head(line) = "#"

IsSettingLine(line, key) ==
  /\ ~IsComment(line)
  /\ Len(line) > Len(key)
  /\ SubSeq(line, 1, Len(key)) = key
  /\ line[Len(key) + 1] = ":"

DeclaredLines(text, key) == SelectSeq(text, LAMBDA x : IsSettingLine(x, key))

IsDeclared(text, key) == DeclaredLines(text, key) # <<>>

DeclaredValue(text, key) ==
  LET line == DeclaredLines(text, key)[1]
  IN Strip(SubSeq(line, Len(key) + 2, Len(line)))

Indices == 0..(sliders - 1)

\* Index idx declares the target expression v (compared in lower case).
Declares(idx, v) ==
  /\ IsDeclared(lines, Str(idx))
  /\ Lower(DeclaredValue(lines, Str(idx))) = v

IsProcessName(v) ==
  /\ v # <<>>
  /\ ~Contains(v, <<",">>)
  /\ Lower(v) \notin {master, system, unmapped}

\* The names of a group declaration that may claim a session.
GroupNames(v) ==
  IF Contains(v, <<",">>)
  THEN { Lower(Strip(Split(v, ",")[i])) : i \in 1..Len(Split(v, ",")) }
       \ {master, system, unmapped}
  ELSE {}

\* The live session table of the last pass, as a set of sessions and names.
LiveNames ==
  { Lower(found_pycaw_sessions[i].Process) :
      i \in { j \in 1..Len(found_pycaw_sessions) :
                found_pycaw_sessions[j].Process # NoProcess } }

HasSystemSession == \E i \in 1..Len(found_pycaw_sessions) : found_pycaw_sessions[i].SystemRoot

\* The system-sounds session: the first one the OS reports.
TheSystemSession ==
  found_pycaw_sessions[CHOOSE i \in 1..Len(found_pycaw_sessions) :
     /\ found_pycaw_sessions[i].SystemRoot
     /\ \A j \in 1..(i - 1) : ~found_pycaw_sessions[j].SystemRoot]

\* Index idx declares a single process name that is / is not running.
DeclaresLive(idx) ==
  /\ IsDeclared(lines, Str(idx))
  /\ IsProcessName(DeclaredValue(lines, Str(idx)))
  /\ Lower(DeclaredValue(lines, Str(idx))) \in LiveNames

DeclaresMissing(idx) ==
  /\ IsDeclared(lines, Str(idx))
  /\ IsProcessName(DeclaredValue(lines, Str(idx)))
  /\ Lower(DeclaredValue(lines, Str(idx))) \notin LiveNames

\* The sessions a declaration other than `unmapped` claims.
ClaimedSessions ==
  { found_pycaw_sessions[i] : i \in { j \in 1..Len(found_pycaw_sessions) :
      \E idx \in Indices :
        /\ IsDeclared(lines, Str(idx))
        /\ LET v == DeclaredValue(lines, Str(idx))
               ses == found_pycaw_sessions[j]
           IN \/ Lower(v) = system /\ HasSystemSession /\ ses = TheSystemSession
              \/ /\ ses.Process # NoProcess
                 /\ \/ IsProcessName(v) /\ Lower(v) = Lower(ses.Process)
                    \/ Lower(ses.Process) \in GroupNames(v) } }

PassDone == called = "get_mapping" /\ raised = NoError

Bound(idx) == DictHas(sessions, idx)

TargetAt(idx) == DictGet(sessions, idx)

MembersAt(idx) == { TargetAt(idx).sessions[i] : i \in 1..Len(TargetAt(idx).sessions) }

CalledIndices == { calls[i].index : i \in 1..Len(calls) }

\* The config has the lines the pass looks up, and the OS a system session.
PassInputsPresent ==
  /\ \A idx \in Indices : IsDeclared(lines, Str(idx))
  /\ (\E idx \in Indices : Declares(idx, unmapped)) => IsDeclared(lines, system_in_unmapped)
  /\ HasSystemSession

-----------------------------------------------------------------------------
(* Claims *)

\* C1: after a successful resolution pass in which `unmapped` is declared,
\* no session claimed by another declaration (system, a process name, a
\* member of a group) is a member of the group bound at an unmapped index,
\* wherever among the indices `unmapped` is declared.
C1_UnmappedExcludesClaimed ==
  PassDone =>
    \A u \in Indices :
      (Declares(u, unmapped) /\ Bound(u)) => MembersAt(u) \cap ClaimedSessions = {}

\* C1 witness: `unmapped` at index 0 and chrome.exe at index 1, with Chrome
\* and Spotify running: the group at index 0 holds Spotify and not Chrome.
C1_Witness ==
  /\ PassDone
  /\ Declares(0, unmapped) /\ Declares(1, <<"chrome.exe">>)
  /\ Bound(0) /\ Bound(1)
  /\ AllSessions[1] \in ClaimedSessions
  /\ MembersAt(0) = {AllSessions[2]}

\* C2: with `system in unmapped` set to false, in any letter case, and
\* `unmapped` declared, the system session is not a member of the unmapped
\* group after a successful pass, declared by a slider or not, in the live
\* table or not.
C2_SystemDroppedWhenFalse ==
  (/\ PassDone
   /\ IsDeclared(lines, system_in_unmapped)
   /\ Lower(DeclaredValue(lines, system_in_unmapped)) = false)
  => \A u \in Indices :
       (Declares(u, unmapped) /\ Bound(u)) => TheSystemSession \notin MembersAt(u)

\* C2 witness: `system in unmapped:False`, no slider declares system, the
\* system session has a process and so is in the live table, and the
\* unmapped group is bound and holds Chrome only.
C2_Witness ==
  /\ PassDone
  /\ IsDeclared(lines, system_in_unmapped)
  /\ DeclaredValue(lines, system_in_unmapped) = <<"False">>
  /\ \A idx \in Indices : ~Declares(idx, system)
  /\ TheSystemSession = AllSessions[4]
  /\ Declares(0, unmapped) /\ Bound(0)
  /\ MembersAt(0) = {AllSessions[1]}

\* C3: an index that declares a single process name that is not running
\* does not make the pass fail (the pass succeeds whenever the config has the
\* lines it looks up and the OS reports a system session), is left without
\* an entry in self.sessions, and a following set_volume on a full batch
\* makes no call for it, raises nothing, and calls every bound index.
C3_MissingTargetTolerated ==
  \A idx \in Indices :
    DeclaresMissing(idx) =>
      /\ (called = "get_mapping" /\ PassInputsPresent) => raised = NoError
      /\ PassDone => ~Bound(idx)
      /\ called = "set_volume" =>
           /\ ~Bound(idx)
           /\ idx \notin CalledIndices
           /\ raised = NoError
           /\ CalledIndices = DictKeys(sessions)

\* C3 witness: index 0 declares discord.exe, which is not running, index 1
\* declares master; a batch was dispatched and only index 1 was called.
C3_Witness ==
  /\ called = "set_volume"
  /\ DeclaresMissing(0) /\ Declares(0, <<"discord.exe">>)
  /\ Declares(1, master)
  /\ Len(values) = 2
  /\ CalledIndices = {1}
  /\ raised = NoError

\* C7: set_volume calls the target of every bound index i with
\* values[i] / 1023, or with 1 - values[i] / 1023 when inverted, a level in
\* [0, 1]: 1023 gives 1 and 0 gives 0, and the reverse when inverted.
C7_NormalizedVolume ==
  called = "set_volume" =>
    /\ CalledIndices = DictKeys(sessions)
    /\ \A c \in 1..Len(calls) :
         LET v == calls[c].volume
             r == values[calls[c].index + 1]
         IN /\ v.den > 0 /\ 0 <= v.num /\ v.num <= v.den
            /\ ~inverted => v.num * 1023 = r * v.den
            /\ inverted => v.num * 1023 = (1023 - r) * v.den
            /\ (r = 1023 /\ ~inverted) => v.num = v.den
            /\ (r = 0 /\ ~inverted) => v.num = 0
            /\ (r = 1023 /\ inverted) => v.num = 0
            /\ (r = 0 /\ inverted) => v.num = v.den

\* C7 witness: inverted, the batch 512, 1023 over two bound targets: the
\* levels applied are 1 - 512/1023 and 0.
C7_Witness ==
  /\ called = "set_volume"
  /\ inverted
  /\ values = <<512, 1023>>
  /\ Len(calls) = 2
  /\ \E a, b \in 1..2 :
       /\ calls[a].index = 0 /\ calls[a].volume = [num |-> 511, den |-> 1023]
       /\ calls[b].index = 1 /\ calls[b].volume = [num |-> 0, den |-> 1023]

\* C9 (as claimed): with no `system in unmapped` line and `unmapped`
\* declared, the pass completes without error and acts as if the value were
\* true: the unmapped index is bound, and its group is every session of the
\* live table that no declaration claimed.
C9_AbsentLineDefaultsTrue ==
  (/\ called = "get_mapping"
   /\ ~IsDeclared(lines, system_in_unmapped)
   /\ \A idx \in Indices : IsDeclared(lines, Str(idx))
   /\ HasSystemSession)
  => \A u \in Indices :
       Declares(u, unmapped) =>
         /\ raised = NoError
         /\ \E w \in Indices :
              /\ Declares(w, unmapped) /\ Bound(w)
              /\ MembersAt(w) \cap ClaimedSessions = {}
              /\ \A i \in 1..Len(found_pycaw_sessions) :
                   LET ses == found_pycaw_sessions[i]
                   IN (/\ ses.Process # NoProcess
                       /\ ses \notin ClaimedSessions
                       /\ \A j \in (i + 1)..Len(found_pycaw_sessions) :
                            Lower(found_pycaw_sessions[j].Process) # Lower(ses.Process))
                      => ses \in MembersAt(w)

\* C10 (as claimed): after a successful pass every index that declares
\* master is bound to a Master target, and every index that declares a
\* running process is bound to the session of that process, also when
\* several indices declare the same target.
C10_EveryDeclaredIndexBound ==
  PassDone =>
    \A idx \in Indices :
      /\ Declares(idx, master) => (Bound(idx) /\ TargetAt(idx).cls = "Master")
      /\ DeclaresLive(idx) =>
           /\ Bound(idx)
           /\ TargetAt(idx).cls = "Session"
           /\ \A m \in MembersAt(idx) :
                Lower(m.Process) = Lower(DeclaredValue(lines, Str(idx)))

\* C4 (as claimed): when the set_volume of a target fails with a
\* VolumeSetError, Control.set_volume does not abort the batch: no exception
\* leaves it and every bound target has received its call.
C4_StaleHandleDoesNotAbort ==
  (/\ called = "set_volume"
   /\ \E i \in 1..Len(sessions) : app_set_volume_raises(sessions[i].val, stale))
  => /\ raised = NoError
     /\ CalledIndices = DictKeys(sessions)

\* C6: a successful pass on the config text and the live sessions of the
\* first successful pass yields the mapping that pass yielded, whatever
\* passes on other configs and sessions came between and whatever mapping
\* they left.
C6_ReResolutionIdempotent ==
  (/\ PassDone
   /\ first.set
   /\ lines = first.lines
   /\ found_pycaw_sessions = first.found)
  => sessions = first.sessions

\* C6 witness: the first pass bound the unmapped group to Spotify, passes on
\* another config and other sessions came between, and a pass on the first
\* inputs has run again.
C6_Witness ==
  /\ PassDone
  /\ first.set
  /\ lines = first.lines /\ found_pycaw_sessions = first.found
  /\ sessions = first.sessions
  /\ Declares(0, <<"chrome.exe">>)
  /\ \E u \in Indices : Declares(u, unmapped) /\ Bound(u) /\ MembersAt(u) = {AllSessions[2]}
  /\ first.other

\* C8 (as claimed): get_setting returns the value of the first line that is
\* not a comment and has the form <key>: <value>; a comment that contains
\* <key>: never decides a setting.
C8_CommentsIgnored ==
  (called = "get_setting" /\ IsDeclared(lines, looked.text))
  => /\ looked.result.ok
     /\ looked.result.val = DeclaredValue(lines, looked.text)

\* C5: while a reload of the mapping and a dispatch interleave, self.sessions
\* is the mapping of the last pass that finished, whole, and so is the dict
\* a running set_volume took from it; a reload that raises part way leaves
\* that mapping in place.
C5_DispatcherReadsWholeMapping ==
  /\ constructed => sessions = current
  /\ ~constructed => sessions = <<>>
  /\ disp.pc = "iterating" => disp.items = disp.read

\* C5 witness: a reload has raised at line 102 for a missing index line and
\* left the mapping in place; the next reload has rebuilt part of its table,
\* which differs from the mapping, while set_volume is half way through the
\* mapping it took.
C5_Witness ==
  /\ constructed
  /\ raised = IndexError(102)
  /\ refresh.pc = "unmapped"
  /\ refresh.session_dict # sessions
  /\ disp.pc = "iterating" /\ disp.pos = 2
  /\ disp.items = current /\ Len(current) = 2

====
